---- MODULE Spec2Model ----
(***************************************************************************)
(* QuickCast browser client (src/frontend/share.js, lines 213-888: the     *)
(* main page's script) as a state machine.                                 *)
(*                                                                         *)
(* app    the script's module variables ("// State", lines 219-228)        *)
(* dom    the DOM state the script sets and that decides which controls    *)
(*        the user can operate: section visibility (class "hidden"), the   *)
(*        generate button's disabled flag, the error text on display ("",  *)
(*        when the error section is hidden)                                *)
(* audio  the <audio> element: source, paused, currentTime, duration, the  *)
(*        pending load and the one-shot 'loadeddata' listeners             *)
(* net    requests in flight and timers: one poll loop per startPolling    *)
(*        call, generate requests, share-dialog lookups                    *)
(* jobs   the server's job records (backend is not part of src/; modelled  *)
(*        from the specification's job state machine)                      *)
(* obs    history variables used only to state properties                  *)
(* tts    the synthesis of a dialogue, line by line, with its retries      *)
(*        (src/Speechmatics_TTS_Feedback.md, lines 301-334)                *)
(* srv    the scheduler, the orchestrators with their job records, and     *)
(*        the last status snapshot handed out for each job                 *)
(* shr    the share page (src/unnamed/part_001) with its audio element,    *)
(*        and the share ids the storage still holds                        *)
(*                                                                         *)
(* Time is in whole seconds.  Handlers run to completion (single UI        *)
(* thread); an await splits a handler into separate steps.                 *)
(***************************************************************************)
EXTENDS Integers, Sequences, FiniteSets, TLC

VARIABLES app, dom, audio, net, jobs, obs, tts, shr, srv

vars == <<app, dom, audio, net, jobs, obs, tts, shr, srv>>

\* The main page and the server it talks to.
pageVars == <<app, dom, audio, net, jobs, obs>>

\* ---------------------------------------------------------------- bounds
MaxCalls == 2
MaxSegs == 2
MaxProgress == 1
SegLen == 10
TickLen == 5
MaxNoProgress == 3
MaxJobs == 2
MaxLines == 2
MaxRunning == 1
PoolSize == 2

\* ------------------------------------------------------ program constants
BaselineInterval == 1000
RelaxedInterval == 5000
NoProgressLimit == 3
SwapThreshold == 5
MaxRetries == 4

Jobs == 1..MaxCalls

\* Positions the slider is moved to.
SeekTargets == {0, MaxSegs * SegLen - TickLen}
NoJob == 0

\* What the user has typed into the URL field, as a sequence of pieces of
\* text; " " is white space.
Urls == {<< >>, <<" ">>, <<"not a url">>, <<"https://example.com/a">>,
         <<" ", "https://example.com/a", " ">>}

\* String.prototype.trim
RECURSIVE trimStart(_)
trimStart(u) == IF u # << >> /\ Head(u) = " " THEN trimStart(Tail(u)) ELSE u

RECURSIVE trimEnd(_)
trimEnd(u) ==
    IF u # << >> /\ u[Len(u)] = " " THEN trimEnd(SubSeq(u, 1, Len(u) - 1)) ELSE u

trim(u) == trimEnd(trimStart(u))

\* new URL(url) does not throw: the parser strips leading and trailing
\* white space and needs an absolute URL.
ValidUrl(url) == trim(url) = <<"https://example.com/a">>

Errors == {"SynthesisFailed: line 2 exhausted its retries"}

MsgEnterUrl == "Please enter a valid URL"
MsgStartFailed == "Failed to start generation"
MsgGenerationFailed == "Podcast generation failed"
MsgStatusPrefix == "Failed to check status: "
MsgServerRejected == "Invalid URL provided"
MsgFetchFailed == "Failed to fetch"
MsgGetStatusFailed == "Failed to get job status"
MsgBadJson == "Unexpected token < in JSON"

NoSrc == <<"none", NoJob>>

Min(a, b) == IF a < b THEN a ELSE b

\* ----------------------------------------------------------- job records
\* metadata.article of a completed job: what the scraper found.
NoArticle == [title |-> "", url |-> "", author |-> ""]

Articles ==
    {NoArticle,
     [title |-> "Article", url |-> "https://www.example.org/post", author |-> "A. Writer"]}

NoRecord == [status |-> "none", progress |-> 0, completed_segments |-> 0,
             error |-> "none", share |-> FALSE, article |-> NoArticle]

\* The orchestrator of a job: pending -> processing -> completed | failed,
\* with progress and completed_segments never decreasing while processing.
\* Later(r) is every record the job can have reached from r by the time the
\* server answers the next status request about it (r itself included): the
\* server runs on its own, and the page sees a job only through its answers.
Later(r) ==
    IF r.status \in {"none", "completed", "failed", "expired"} THEN {r}
    ELSE {r}
         \cup {[status |-> "processing", progress |-> p, completed_segments |-> n,
                error |-> "none", share |-> FALSE, article |-> NoArticle] :
                  p \in r.progress..MaxProgress,
                  n \in r.completed_segments..MaxSegs}
         \cup {[status |-> "failed", progress |-> p, completed_segments |-> n,
                error |-> e, share |-> FALSE, article |-> NoArticle] :
                  p \in r.progress..MaxProgress,
                  n \in r.completed_segments..MaxSegs,
                  e \in Errors}
         \cup {[status |-> "completed", progress |-> MaxProgress,
                completed_segments |-> MaxSegs, error |-> "none", share |-> sh,
                article |-> a] :
                  sh \in BOOLEAN, a \in Articles}

\* The store keeps a record for a limited time; what is left of a job that
\* no request names any more is only that its id is taken.
Expired == [NoRecord EXCEPT !.status = "expired"]

NumJobs == Cardinality({j \in Jobs : jobs[j].status # "none"})

\* GET /api/status/{job_id}: one snapshot of the record r of job j.  The
\* partial artifact is listed while the job is processing; a terminal record
\* carries its result or its error in its place.
Snapshot(j, r) ==
    [job |-> j,
     status |-> r.status,
     progress |-> r.progress,
     completed_segments |-> r.completed_segments,
     total_segments |-> MaxSegs,
     partial_audio_url |-> r.completed_segments >= 1 /\ r.status = "processing",
     error |-> r.error,
     share |-> r.share,
     article |-> r.article,
     dialogue_segments |-> IF r.status = "completed" THEN MaxSegs ELSE 0]

\* GET /api/audio/{job_id}[?partial=true] for a job with record r: seconds
\* of audio served, 0 if there is no such artifact (404 / NotReady).  keep
\* says whether the store still serves the partial artifact of a failed job.
Artifact(kind, r, keep) ==
    IF r.status = "completed" THEN MaxSegs * SegLen
    ELSE IF kind = "final" THEN 0
    ELSE IF r.status = "processing" \/ (r.status = "failed" /\ keep)
         THEN r.completed_segments * SegLen
    ELSE 0

\* ------------------------------------------------------------ the client
\* addEventListener('loadeddata', onLoaded) with the position t and the
\* playing flag the listener has captured.  The listeners run in the order
\* they were added and each sets the position, so two pending listeners act
\* as one that sets the later position and plays if either of them plays.
addOnLoaded(ls, t, wasPlaying) ==
    IF ls = << >> THEN <<<<t, wasPlaying>>>>
    ELSE <<<<t, ls[1][2] \/ wasPlaying>>>>

Here == [app |-> app, dom |-> dom, audio |-> audio, net |-> net]

showProgress(S) ==
    [S EXCEPT !.dom.inputHidden = TRUE,
              !.dom.errorHidden = TRUE,
              !.dom.errorMessage = "",
              !.dom.progressHidden = FALSE]

hideProgress(S) == [S EXCEPT !.dom.progressHidden = TRUE]

showError(S, message) ==
    [S EXCEPT !.dom.inputHidden = TRUE,
              !.dom.progressHidden = TRUE,
              !.dom.errorHidden = FALSE,
              !.dom.errorMessage = message]

hideError(S) == [S EXCEPT !.dom.errorHidden = TRUE, !.dom.errorMessage = ""]

\* clearTimeout on the handle in pollInterval: cancels that loop's timer if
\* it has not fired yet, and is a no-op on a handle that already fired.
clearTimeout(S, h) ==
    IF h # NoJob /\ S.net.poll[h] = "timer"
    THEN [S EXCEPT !.net.poll[h] = "stopped"]
    ELSE S

\* stopPolling that resets the polling state and leaves the timer alone.
stopPollingKeepsTimer(S) ==
    [S EXCEPT !.app.pollIntervalTime = BaselineInterval,
              !.app.lastProgress = 0,
              !.app.noProgressCount = 0]

stopPolling(S) ==
    LET T == IF S.app.pollInterval # NoJob
             THEN [clearTimeout(S, S.app.pollInterval) EXCEPT !.app.pollInterval = NoJob]
             ELSE S
    IN [T EXCEPT !.app.pollIntervalTime = BaselineInterval,
                 !.app.lastProgress = 0,
                 !.app.noProgressCount = 0]

\* audioElement.src = url; audioElement.load(): the media element's load
\* algorithm pauses playback and puts the position back to 0 until the new
\* resource has loaded.
audioLoad(S, src) ==
    [S EXCEPT !.audio.src = src,
              !.audio.paused = TRUE,
              !.audio.currentTime = 0,
              !.audio.duration = 0,
              !.audio.loading = TRUE]

loadAudio(S, j) ==
    LET t == S.audio.currentTime
        wasPlaying == ~S.audio.paused
        L == audioLoad([S EXCEPT !.app.partialAudioLoaded = FALSE], <<"final", j>>)
        M == [L EXCEPT !.dom.playerHidden = FALSE]
    IN IF wasPlaying /\ t > 0
       THEN [M EXCEPT !.audio.onLoaded = addOnLoaded(@, t, TRUE)]
       ELSE M

loadPartialAudio(S, j) ==
    LET t == S.audio.currentTime
        wasPlaying == ~S.audio.paused
        L == audioLoad(S, <<"partial", j>>)
    IN [L EXCEPT !.dom.playerHidden = FALSE,
                 !.audio.onLoaded = addOnLoaded(@, t, wasPlaying)]

reloadPartialAudio(S, j) ==
    LET t == S.audio.currentTime
        wasPlaying == ~S.audio.paused
        L == audioLoad(S, <<"partial", j>>)
    IN [L EXCEPT !.audio.onLoaded = addOnLoaded(@, t, wasPlaying)]

shouldReloadNow(a) ==
    \/ a.paused
    \/ a.currentTime = 0
    \/ a.duration - a.currentTime < SwapThreshold

updateProgress(S, data) ==
    LET P == showProgress(S) IN
    IF data.partial_audio_url /\ ~P.app.partialAudioLoaded
    THEN [loadPartialAudio(P, data.job)
             EXCEPT !.app.partialAudioLoaded = TRUE,
                    !.app.lastSegmentCount = data.completed_segments,
                    !.app.pendingSegmentCount = data.completed_segments]
    ELSE IF data.partial_audio_url /\ data.completed_segments > P.app.lastSegmentCount
    THEN LET Q == [P EXCEPT !.app.pendingSegmentCount = data.completed_segments] IN
         IF shouldReloadNow(Q.audio)
         THEN [reloadPartialAudio(Q, data.job)
                  EXCEPT !.app.lastSegmentCount = data.completed_segments]
         ELSE Q
    ELSE P

\* cleanSourceUrl, for the source URLs of SourceUrls.
cleanSourceUrl(url) ==
    CASE url = "https://www.bbc.co.uk/news/1" -> "BBC"
      [] url = "https://www.example.org/post" -> "Example"
      [] OTHER -> url

\* What an element shows: text is what was assigned, html tells that the
\* assignment went through innerHTML, so that the text was parsed as markup,
\* and href is the address interpolated into that markup.
AsText(text) == [html |-> FALSE, text |-> text, href |-> ""]
AsMarkup(text, href) == [html |-> TRUE, text |-> text, href |-> href]

DefaultPodcastTitle == "Your Podcast"

\* The title of handleCompletion: a link when the article has a URL.
renderTitle(article) ==
    LET title == IF article.title # "" THEN article.title ELSE DefaultPodcastTitle IN
    IF article.url # "" THEN AsMarkup(title, article.url) ELSE AsText(title)

handleCompletion(S, data) ==
    LET H == [hideProgress(S) EXCEPT !.app.pendingSegmentCount = 0,
                                     !.app.lastSegmentCount = data.dialogue_segments,
                                     !.dom.podcastTitle = renderTitle(data.article),
                                     !.dom.podcastAuthor =
                                         IF data.article.author # ""
                                         THEN AsText(cleanSourceUrl(data.article.author)) ELSE @,
                                     !.dom.podcastAuthorHidden = data.article.author = "",
                                     !.dom.podcastInfoHidden = FALSE]
        A == loadAudio(H, H.app.currentJobId)
    IN IF data.share THEN [A EXCEPT !.dom.actionBarHidden = FALSE] ELSE A

\* handleTimeUpdate without the check for pending segments.
handleTimeUpdateNoReload(S) == S

handleTimeUpdate(S) ==
    IF /\ S.audio.duration # 0
       /\ S.audio.duration - S.audio.currentTime < SwapThreshold
       /\ S.app.pendingSegmentCount > S.app.lastSegmentCount
       /\ S.app.partialAudioLoaded
    THEN [reloadPartialAudio(S, S.app.currentJobId)
             EXCEPT !.app.lastSegmentCount = S.app.pendingSegmentCount]
    ELSE S

togglePlayPause(S) ==
    IF S.audio.paused
    THEN [S EXCEPT !.audio.paused = FALSE,
                   !.audio.currentTime =
                       IF S.audio.duration # 0 /\ @ = S.audio.duration THEN 0 ELSE @]
    ELSE [S EXCEPT !.audio.paused = TRUE]

\* resetUI that leaves the audio source in place and loads it again.
resetUIReloading(S) ==
    LET T == stopPolling(S) IN
    [T EXCEPT !.app.currentJobId = NoJob,
              !.audio.paused = TRUE,
              !.audio.currentTime = 0,
              !.audio.loading = S.audio.src # NoSrc,
              !.dom.generateBtnDisabled = FALSE,
              !.dom.errorHidden = TRUE,
              !.dom.errorMessage = "",
              !.dom.progressHidden = TRUE,
              !.dom.inputHidden = FALSE]

resetUI(S) ==
    LET T == stopPolling(S) IN
    [T EXCEPT !.app.currentJobId = NoJob,
              !.app.partialAudioLoaded = FALSE,
              !.app.lastSegmentCount = 0,
              !.app.pendingSegmentCount = 0,
              !.audio.paused = TRUE,
              !.audio.src = NoSrc,
              !.audio.currentTime = 0,
              !.audio.duration = 0,
              !.audio.loading = FALSE,
              !.dom.generateBtnDisabled = FALSE,
              !.dom.errorHidden = TRUE,
              !.dom.errorMessage = "",
              !.dom.progressHidden = TRUE,
              !.dom.podcastInfoHidden = TRUE,
              !.dom.playerHidden = TRUE,
              !.dom.inputHidden = FALSE,
              !.dom.actionBarHidden = TRUE,
              !.dom.shareModalHidden = TRUE]

\* An adaptive interval that forgets to go back to the baseline.
adaptIntervalStaysSlow(S, data) ==
    LET A == IF \/ data.progress > S.app.lastProgress
                \/ data.completed_segments > S.app.lastSegmentCount
             THEN [S EXCEPT !.app.noProgressCount = 0]
             ELSE [S EXCEPT !.app.noProgressCount = @ + 1,
                            !.app.pollIntervalTime =
                                IF S.app.noProgressCount + 1 >= NoProgressLimit
                                THEN RelaxedInterval ELSE @]
    IN [A EXCEPT !.app.lastProgress = data.progress]

\* Lines 371-388 of poll(): the adaptive interval.
adaptInterval(S, data) ==
    LET A == IF \/ data.progress > S.app.lastProgress
                \/ data.completed_segments > S.app.lastSegmentCount
             THEN [S EXCEPT !.app.pollIntervalTime = BaselineInterval,
                            !.app.noProgressCount = 0]
             ELSE [S EXCEPT !.app.noProgressCount = @ + 1,
                            !.app.pollIntervalTime =
                                IF S.app.noProgressCount + 1 >= NoProgressLimit
                                THEN RelaxedInterval ELSE @]
    IN [A EXCEPT !.app.lastProgress = data.progress]

\* The failed branch showing its default text whatever the response carries.
failedMessageDefault(data) == MsgGenerationFailed

failedMessage(data) ==
    IF data.error # "none" THEN data.error ELSE MsgGenerationFailed

\* pollInterval = setTimeout(poll, pollIntervalTime) in loop c
schedulePoll(S, c) ==
    [S EXCEPT !.net.poll[c] = "timer",
              !.app.pollInterval = c]

\* Lines 393-404 of poll(): what loop c does with a parsed response.
pollDispatch(S, c, data) ==
    IF data.status = "completed"
    THEN [handleCompletion(stopPolling(S), data) EXCEPT !.net.poll[c] = "completed"]
    ELSE IF data.status = "failed"
    THEN [showError(stopPolling(S), failedMessage(data))
             EXCEPT !.dom.generateBtnDisabled = FALSE,
                    !.net.poll[c] = "failed"]
    ELSE schedulePoll(S, c)

\* A catch block that stops polling and shows nothing.
pollCatchSilent(S, c, message) ==
    [stopPolling(S) EXCEPT !.dom.generateBtnDisabled = FALSE,
                           !.net.poll[c] = "stopped"]

\* Lines 406-410 of poll(): the catch block.
pollCatch(S, c, message) ==
    [showError(stopPolling(S), MsgStatusPrefix \o message)
        EXCEPT !.dom.generateBtnDisabled = FALSE,
               !.net.poll[c] = "stopped"]

\* poll() after its fetch has settled, in loop c.
pollSettled(S, c, outcome, data) ==
    LET T == [S EXCEPT !.net.pollJob[c] = NoJob] IN
    CASE outcome = "network_error" -> pollCatch(T, c, MsgFetchFailed)
      [] outcome = "http_error"    -> pollCatch(T, c, MsgGetStatusFailed)
      [] outcome = "bad_json"      -> pollCatch(T, c, MsgBadJson)
      [] OTHER -> pollDispatch(updateProgress(adaptInterval(T, data), data), c, data)

\* poll() up to its await: the status request for whatever currentJobId is.
pollSend(S, c) ==
    [S EXCEPT !.net.poll[c] = "inflight",
              !.net.pollJob[c] = S.app.currentJobId]

startPolling(S, c) == pollSend(S, c)

\* handleGenerate sending its request whatever the field holds.
handleGenerateUnchecked(S, value) ==
    [showProgress(hideError([S EXCEPT !.dom.generateBtnDisabled = TRUE]))
        EXCEPT !.net.genPending = @ + 1]

\* handleGenerate up to its await; value is urlInput.value.
handleGenerate(S, value) ==
    LET url == trim(value) IN
    IF url = << >> \/ ~ValidUrl(url)
    THEN showError(S, MsgEnterUrl)
    ELSE [showProgress(hideError([S EXCEPT !.dom.generateBtnDisabled = TRUE]))
             EXCEPT !.net.genPending = @ + 1]

\* handleGenerate after the generate request has settled; id is the job id
\* of an accepted request.
\* handleGenerate that does not look at response.ok: a rejection without a
\* job_id is taken for the new job.
generateSettledUnchecked(S, outcome, id) ==
    LET G == [S EXCEPT !.net.genPending = @ - 1] IN
    IF outcome \in {"accepted", "rejected", "rejected_no_message"}
    THEN startPolling([G EXCEPT !.app.currentJobId = IF outcome = "accepted" THEN id ELSE NoJob],
                      id)
    ELSE [showError(G, IF outcome = "rejected_not_json" THEN MsgBadJson ELSE MsgFetchFailed)
             EXCEPT !.dom.generateBtnDisabled = FALSE]

generateSettled(S, outcome, id) ==
    LET G == [S EXCEPT !.net.genPending = @ - 1] IN
    IF outcome = "accepted"
    THEN startPolling([G EXCEPT !.app.currentJobId = id], id)
    ELSE [showError(G, CASE outcome = "rejected" -> MsgServerRejected
                         [] outcome = "rejected_no_message" -> MsgStartFailed
                         [] outcome = "rejected_not_json" -> MsgBadJson
                         [] OTHER -> MsgFetchFailed)
             EXCEPT !.dom.generateBtnDisabled = FALSE]

\* The download is a navigation of its own: it changes nothing in the page.
handleDownload(S) == S

openShareModal(S) ==
    [S EXCEPT !.dom.shareModalHidden = FALSE,
              !.net.shareReq = @ \cup {S.app.currentJobId}]

closeShareModal(S) == [S EXCEPT !.dom.shareModalHidden = TRUE]

handleSeek(S, t) == [S EXCEPT !.audio.currentTime = t]

\* The 'loadeddata' listeners, in the order they were added; each removes
\* itself.  A position beyond the new buffer is clamped to its end.
RECURSIVE runOnLoaded(_, _)
runOnLoaded(a, ls) ==
    IF ls = << >> THEN a
    ELSE LET l == Head(ls) IN
         runOnLoaded([a EXCEPT !.currentTime = Min(l[1], a.duration),
                               !.paused = IF l[2] THEN FALSE ELSE @],
                     Tail(ls))

\* ------------------------------------------------- the synthesis client
\* tts.lines    lines of the dialogue (0: no call yet)
\* tts.line     the line generate_speech is called for
\* tts.state    "idle", "posting" (requests.post in progress), "sleeping"
\*              (the back-off wait), "pacing" (the wait between lines),
\*              "done" (generate_dialogue_audio has returned), "raised"
\* tts.attempt  the loop variable of generate_speech
\* tts.log      outcomes of the attempts for this line, in order
\* tts.waits    back-off waits slept for this line, in seconds, in order
\* tts.saved    lines whose audio has been saved
\* tts.raised   the exception that has left generate_dialogue_audio
TtsIdle == [lines |-> 0, line |-> 0, state |-> "idle", attempt |-> 0,
            log |-> << >>, waits |-> << >>, saved |-> 0, raised |-> "none"]

\* What requests.post and raise_for_status end with: the audio, an HTTP
\* error status, or an exception that carries no response (connection
\* error, timeout).
SpeechOutcomes == {"ok", "429", "503", "400", "401", "no_response"}

Transient == {"503", "429"}

\* An except block that retries after every failed request.
speechExceptRetryAll(t, outcome) ==
    IF t.attempt < MaxRetries - 1
    THEN [t EXCEPT !.state = "sleeping",
                   !.waits = Append(@, 2 ^ (t.attempt + 1))]
    ELSE [t EXCEPT !.state = "raised", !.raised = outcome]

\* Lines 326-333: the except block of generate_speech, for the attempt
\* that failed with outcome.  e.response is None for an exception without
\* a response, and reading its status_code raises AttributeError.
speechExcept(t, outcome) ==
    IF outcome = "no_response"
    THEN [t EXCEPT !.state = "raised", !.raised = "AttributeError"]
    ELSE IF outcome \in Transient /\ t.attempt < MaxRetries - 1
    THEN [t EXCEPT !.state = "sleeping",
                   !.waits = Append(@, 2 ^ (t.attempt + 1))]
    ELSE [t EXCEPT !.state = "raised", !.raised = outcome]

\* Lines 321-333: one pass of the loop of generate_speech once its request
\* has ended; the audio returned is saved by generate_dialogue_audio, which
\* then waits before the next line (lines 306-312).
generate_speech(t, outcome) ==
    LET u == [t EXCEPT !.log = Append(@, outcome)] IN
    IF outcome = "ok"
    THEN [u EXCEPT !.saved = @ + 1, !.state = "pacing"]
    ELSE speechExcept(u, outcome)

\* Lines 304-306: the next pass of the loop over the dialogue.
generate_dialogue_audio(t) ==
    IF t.line < t.lines
    THEN [t EXCEPT !.line = @ + 1, !.state = "posting", !.attempt = 0,
                   !.log = << >>, !.waits = << >>]
    ELSE [t EXCEPT !.state = "done"]

\* generate_dialogue_audio is called with a dialogue of n lines.
DialogueStart(n) ==
    /\ tts.state = "idle"
    /\ tts' = generate_dialogue_audio([tts EXCEPT !.lines = n])
    /\ UNCHANGED <<pageVars, shr, srv>>

\* The request of the current attempt ends.
SpeechResponse(outcome) ==
    /\ tts.state = "posting"
    /\ tts' = generate_speech(tts, outcome)
    /\ UNCHANGED <<pageVars, shr, srv>>

\* time.sleep(wait_time) returns; continue (lines 331-332).
SpeechWake ==
    /\ tts.state = "sleeping"
    /\ tts' = [tts EXCEPT !.state = "posting", !.attempt = @ + 1]
    /\ UNCHANGED <<pageVars, shr, srv>>

\* time.sleep(8) returns (line 312).
PacingOver ==
    /\ tts.state = "pacing"
    /\ tts' = generate_dialogue_audio(tts)
    /\ UNCHANGED <<pageVars, shr, srv>>

\* ------------------------------------------------------------ the server
\* srv.job[j].rec     the job record of job j (status "none": no record)
\* srv.job[j].stage   the orchestrator's stage: "none", "queued", "scraping",
\*                    "scripting", "synthesizing", "assembling", "publishing",
\*                    "ended"
\* srv.job[j].line    per dialogue line: "none", "todo", "flying" (a synthesis
\*                    call is under way), "landed"
\* srv.job[j].attempt per line, the attempts that have failed
\* srv.job[j].landed  the lines whose audio is available, in the order in
\*                    which their synthesis calls completed
\* srv.queue          the jobs waiting to be started, in arrival order
\* srv.seen[j]        the last getStatus snapshot of job j, NotSeen before
\* srv.served         the last getAudio call and what it returned
\* An artifact is the sequence of the line indices whose audio it holds,
\* with Gap for the silence between two entries.
SrvJobs == 1..MaxJobs

Lines == 1..MaxLines

NoRef == << >>

Gap == 0

NoMeta == [segments |-> 0, share |-> FALSE]

NoJobRecord ==
    [status |-> "none", progress |-> 0, message |-> "none",
     completed_segments |-> 0, total_segments |-> 0,
     partial_audio_ref |-> NoRef, final_audio_ref |-> NoRef,
     error |-> "none", metadata |-> NoMeta]

NoOrchestrator ==
    [rec |-> NoJobRecord, stage |-> "none",
     line |-> [i \in Lines |-> "none"], attempt |-> [i \in Lines |-> 0],
     landed |-> << >>]

NotSeen == [progress |-> -1, completed_segments |-> -1]

NoReply == [code |-> "none", bytes |-> NoRef]

SrvIdle ==
    [job |-> [j \in SrvJobs |-> NoOrchestrator], queue |-> << >>,
     seen |-> [j \in SrvJobs |-> NotSeen],
     served |-> [job |-> 0, partial |-> FALSE, reply |-> NoReply]]

Range(q) == {q[i] : i \in 1..Len(q)}

\* The buffers of the given lines in the order of their line indices.
RECURSIVE byIndex(_)
byIndex(ls) ==
    IF ls = {} THEN << >>
    ELSE LET m == CHOOSE i \in ls : \A k \in ls : i <= k
         IN <<m>> \o byIndex(ls \ {m})

\* The completed lines handed to the assembler as they arrived.
orderedAsArrived(landed) == landed

\* The completed lines handed to the assembler: tracked by line index.
ordered(landed) == byIndex(Range(landed))

\* Partial Assembler: concatenation with a silence gap between entries.
RECURSIVE assemble(_)
assemble(buffers) ==
    IF Len(buffers) <= 1 THEN buffers
    ELSE <<Head(buffers), Gap>> \o assemble(Tail(buffers))

\* progress: a monotonic function of stage weight + completed / total.
progressOf(stage, k, n) ==
    CASE stage = "scraping" -> 5
      [] stage = "scripting" -> 15
      [] stage = "synthesizing" -> 30 + (50 * k) \div n
      [] stage = "assembling" -> 85
      [] stage = "publishing" -> 95
      [] OTHER -> 0

\* submit: the pending record.
created(o) ==
    [o EXCEPT !.rec = [NoJobRecord EXCEPT !.status = "pending", !.message = "queued"],
              !.stage = "queued"]

\* The orchestrator enters a stage and reports it.
enter(o, stage) ==
    [o EXCEPT !.stage = stage,
              !.rec.message = stage,
              !.rec.progress = progressOf(stage, o.rec.completed_segments,
                                          o.rec.total_segments)]

\* pending -> processing, on start.
started(o) == enter([o EXCEPT !.rec.status = "processing"], "scraping")

\* The orchestrator's task ends: its locals are gone; the synthesis calls
\* still under way will end on their own.
ended(o) ==
    [o EXCEPT !.stage = "ended",
              !.line = [i \in Lines |-> IF @[i] = "flying" THEN "flying" ELSE "none"],
              !.attempt = [i \in Lines |-> 0],
              !.landed = << >>]

\* A stage failure whose task ends without a word in the record.
failJobSwallowed(o, kind) == ended(o)

\* A stage failure: failed with the error; one update of the record.
failJob(o, kind) ==
    [ended(o) EXCEPT
              !.rec.status = "failed",
              !.rec.message = kind,
              !.rec.error = kind]

\* A completion that writes the status before the result.
completeJobStatusFirst(o, share) ==
    [ended(o) EXCEPT
              !.rec.status = "completed",
              !.rec.progress = 100]

\* completed with final_audio_ref and metadata; one update of the record.
completeJob(o, share) ==
    [ended(o) EXCEPT
              !.rec.status = "completed",
              !.rec.progress = 100,
              !.rec.message = "completed",
              !.rec.partial_audio_ref = NoRef,
              !.rec.final_audio_ref = assemble(ordered(o.landed)),
              !.rec.metadata = [segments |-> o.rec.total_segments, share |-> share]]

scraped(o, outcome) ==
    IF outcome = "ok" THEN enter(o, "scripting") ELSE failJob(o, "ExtractionFailed")

\* A scripting stage that tries again after a failure.
scriptedRetrying(o, outcome, n) ==
    IF outcome = "ok"
    THEN enter([o EXCEPT !.rec.total_segments = n,
                         !.line = [i \in Lines |-> IF i <= n THEN "todo" ELSE "none"]],
               "synthesizing")
    ELSE [o EXCEPT !.rec.message = "retrying"]

\* The script has n lines.
scripted(o, outcome, n) ==
    IF outcome = "ok"
    THEN enter([o EXCEPT !.rec.total_segments = n,
                         !.line = [i \in Lines |-> IF i <= n THEN "todo" ELSE "none"]],
               "synthesizing")
    ELSE failJob(o, "ScriptingFailed")

Flying(o) == {i \in Lines : o.line[i] = "flying"}

\* The next line of the script goes to a free worker.
sendLine(o) ==
    LET i == CHOOSE i \in Lines : o.line[i] = "todo" /\ \A k \in 1..(i - 1) : o.line[k] # "todo"
    IN [o EXCEPT !.line[i] = "flying"]

\* A line's audio that is counted by its index.
landLineAtIndex(o, i) ==
    LET p == [o EXCEPT !.line[i] = "landed", !.landed = Append(@, i)] IN
    [p EXCEPT !.rec.completed_segments = i,
              !.rec.partial_audio_ref = assemble(ordered(p.landed))]

\* A line's audio that is aggregated whatever the job's status is.
landLineUnguarded(o, i) ==
    LET p == [o EXCEPT !.line[i] = "landed", !.landed = Append(@, i)] IN
    [p EXCEPT !.rec.completed_segments = @ + 1,
              !.rec.partial_audio_ref = assemble(ordered(p.landed))]

\* The audio of line i has become available: one update of
\* completed_segments, progress and partial_audio_ref; after the last line
\* the final assembly follows.  A line of a job that has failed is dropped.
landLine(o, i) ==
    IF o.rec.status # "processing" THEN [o EXCEPT !.line[i] = "none"]
    ELSE LET p == [o EXCEPT !.line[i] = "landed", !.landed = Append(@, i)]
             q == [p EXCEPT !.rec.completed_segments = @ + 1,
                            !.rec.partial_audio_ref = assemble(ordered(p.landed))]
         IN IF q.rec.completed_segments = q.rec.total_segments
            THEN enter(q, "assembling")
            ELSE enter(q, "synthesizing")

SynthesisOutcomes == {"ok", "RateLimited", "ServiceUnavailable", "Fatal"}

\* A synthesis call of line i has ended.
lineResponse(o, i, outcome) ==
    IF outcome = "ok" THEN landLine(o, i)
    ELSE IF o.rec.status # "processing" THEN [o EXCEPT !.line[i] = "none"]
    ELSE IF outcome \in {"RateLimited", "ServiceUnavailable"} /\ o.attempt[i] + 1 < MaxRetries
    THEN [o EXCEPT !.attempt[i] = @ + 1]
    ELSE failJob([o EXCEPT !.line[i] = "none"], "SynthesisFailed")

\* The final assembly has ended; sharing says whether sharing is enabled.
assembled(o, outcome, sharing) ==
    IF outcome # "ok" THEN failJob(o, "AssemblyFailed")
    ELSE IF sharing THEN enter(o, "publishing")
    ELSE completeJob(o, FALSE)

published(o, outcome) ==
    IF outcome = "ok" THEN completeJob(o, TRUE) ELSE failJob(o, "PublishingFailed")

\* getStatus: the record at one instant.
getStatus(j) == srv.job[j].rec

\* getAudio that hands out whatever reference the record holds.
getAudioUnchecked(j, partial, keep) ==
    IF getStatus(j).status = "none" THEN [code |-> "NotFound", bytes |-> NoRef]
    ELSE IF partial THEN [code |-> "ok", bytes |-> getStatus(j).partial_audio_ref]
    ELSE [code |-> "ok", bytes |-> getStatus(j).final_audio_ref]

\* getAudio(job_id, partial?): the final artifact of a completed job; with
\* partial, the current partial artifact of a job that is processing; keep
\* says whether the partial artifact of a failed job is still served.
getAudio(j, partial, keep) ==
    LET r == getStatus(j) IN
    IF r.status = "none" THEN [code |-> "NotFound", bytes |-> NoRef]
    ELSE IF r.status = "completed" THEN [code |-> "ok", bytes |-> r.final_audio_ref]
    ELSE IF /\ partial
            /\ r.status = "processing" \/ (r.status = "failed" /\ keep)
            /\ r.partial_audio_ref # NoRef
         THEN [code |-> "ok", bytes |-> r.partial_audio_ref]
    ELSE [code |-> "NotReady", bytes |-> NoRef]

Running == {j \in SrvJobs : srv.job[j].stage \notin {"none", "queued", "ended"}}

\* submit(url)
Submit(url) ==
    /\ \E j \in SrvJobs :
          /\ srv.job[j].stage = "none"
          /\ \A k \in 1..(j - 1) : srv.job[k].stage # "none"
          /\ srv' = IF ValidUrl(url)
                    THEN [srv EXCEPT !.job[j] = created(@), !.queue = Append(@, j)]
                    ELSE srv
    /\ UNCHANGED <<pageVars, tts, shr>>

\* A scheduler that starts the newest of the waiting jobs.
nextToStartNewest(queue) == queue[Len(queue)]

\* The job the scheduler starts next: the one that has waited longest.
nextToStart(queue) == Head(queue)

\* The queue without job j.
without(queue, j) == SelectSeq(queue, LAMBDA k : k # j)

\* The scheduler starts a waiting job when a pipeline is free.
StartQueued ==
    /\ srv.queue # << >>
    /\ Cardinality(Running) < MaxRunning
    /\ srv' = [srv EXCEPT !.job[nextToStart(srv.queue)] = started(@),
                          !.queue = without(@, nextToStart(srv.queue))]
    /\ UNCHANGED <<pageVars, tts, shr>>

ScrapeEnds(j, outcome) ==
    /\ srv.job[j].stage = "scraping"
    /\ srv' = [srv EXCEPT !.job[j] = scraped(@, outcome)]
    /\ UNCHANGED <<pageVars, tts, shr>>

ScriptEnds(j, outcome, n) ==
    /\ srv.job[j].stage = "scripting"
    /\ srv' = [srv EXCEPT !.job[j] = scripted(@, outcome, n)]
    /\ UNCHANGED <<pageVars, tts, shr>>

SendLine(j) ==
    /\ srv.job[j].stage = "synthesizing"
    /\ \E i \in Lines : srv.job[j].line[i] = "todo"
    /\ Cardinality(Flying(srv.job[j])) < PoolSize
    /\ srv' = [srv EXCEPT !.job[j] = sendLine(@)]
    /\ UNCHANGED <<pageVars, tts, shr>>

LineResponse(j, i, outcome) ==
    /\ srv.job[j].line[i] = "flying"
    /\ srv' = [srv EXCEPT !.job[j] = lineResponse(@, i, outcome)]
    /\ UNCHANGED <<pageVars, tts, shr>>

AssembleEnds(j, outcome, sharing) ==
    /\ srv.job[j].stage = "assembling"
    /\ srv' = [srv EXCEPT !.job[j] = assembled(@, outcome, sharing)]
    /\ UNCHANGED <<pageVars, tts, shr>>

PublishEnds(j, outcome) ==
    /\ srv.job[j].stage = "publishing"
    /\ srv' = [srv EXCEPT !.job[j] = published(@, outcome)]
    /\ UNCHANGED <<pageVars, tts, shr>>

\* GET /api/status/{job_id} of a known job.
GetStatus(j) ==
    /\ getStatus(j).status # "none"
    /\ srv' = [srv EXCEPT !.seen[j] = [progress |-> getStatus(j).progress,
                                       completed_segments |-> getStatus(j).completed_segments]]
    /\ UNCHANGED <<pageVars, tts, shr>>

\* GET /api/audio/{job_id}[?partial=true]
GetAudio(j, partial, keep) ==
    /\ srv' = [srv EXCEPT !.served = [job |-> j, partial |-> partial,
                                      reply |-> getAudio(j, partial, keep)]]
    /\ UNCHANGED <<pageVars, tts, shr>>

\* -------------------------------------------------------- the share page
\* shr.store      share ids the storage collaborator holds (it deletes them
\*                by its own expiry)
\* shr.path       window.location.pathname, a sequence of characters
\* shr.shareId    the script's shareId, a sequence of characters
\* shr.fetching   the lookup of loadSharedPodcast is in flight
\* shr.answer     what the lookup ended with, "none" before
\* shr.*Hidden    class "hidden" of the page's sections
\* shr.errorMessage, shr.title, shr.source   texts on display
\* shr.src, shr.paused, shr.currentTime, shr.duration, shr.loading
\*                the page's audio element
NoShare == << >>

\* The characters of [a-zA-Z0-9] that the ids and the paths below use.
Alnum == {"a", "b", "c", "s", "B", "7", "9"}

\* Job ids are UUIDs: runs of hexadecimal digits joined by "-".
JobUuids == {<<"a", "7", "b", "-", "9", "c">>, <<"9", "c", "-", "a", "7">>}

\* The share ids the storage collaborator issues.
LiveId == <<"a", "7", "b">>
ShareIds == {LiveId, <<"B", "s", "9">>}

\* currentJobId.split('-')[0]
RECURSIVE firstSegment(_)
firstSegment(id) ==
    IF id = << >> \/ Head(id) = "-" THEN << >>
    ELSE <<Head(id)>> \o firstSegment(Tail(id))

\* The pathname of the link openShareModal puts in shareLinkInput: the
\* metadata's share_id when the status answer carries one, the first
\* segment of the job id otherwise.
shareLinkPath(jobId, share_id) ==
    <<"/", "s", "/">> \o (IF share_id # << >> THEN share_id ELSE firstSegment(jobId))

NoPath == <<"?">>

MsgInvalidLink == "Invalid share link"
MsgNotAvailable == "This podcast is not available or has expired"
MsgLoadFailed == "Failed to load shared podcast"
DefaultTitle == "QuickCast Podcast"

ShrUnloaded ==
    [store |-> {LiveId}, path |-> NoPath, shareId |-> NoShare, fetching |-> FALSE, answer |-> "none",
     loadingHidden |-> FALSE, errorHidden |-> TRUE, errorMessage |-> "",
     podcastInfoHidden |-> TRUE, playerHidden |-> TRUE, ctaHidden |-> TRUE,
     title |-> "", source |-> "", sourceHidden |-> TRUE,
     src |-> NoShare, paused |-> TRUE, currentTime |-> 0, duration |-> 0,
     loading |-> FALSE]

\* window.location.pathname: the links of the main app, for every job and
\* every share id or none, and paths that are not links.
Paths ==
    {shareLinkPath(j, i) : j \in JobUuids, i \in ShareIds \cup {<< >>}}
    \cup {<<"/">>, <<"/", "s">>, <<"/", "s", "/">>, <<"/", "a">>,
          <<"/", "s", "/", "-", "a">>, <<"/", "s", "/", "a", "7", "b", "/">>,
          <<"/", "a", "/", "s", "/", "9", "c">>}

\* The longest prefix of q made of the characters of [a-zA-Z0-9].
RECURSIVE alnumRun(_)
alnumRun(q) ==
    IF q = << >> \/ Head(q) \notin Alnum THEN << >>
    ELSE <<Head(q)>> \o alnumRun(Tail(q))

\* The places of path where /\/s\/([a-zA-Z0-9]+)/ matches.
matchStarts(path) ==
    {i \in 1..(Len(path) - 3) :
        /\ path[i] = "/" /\ path[i + 1] = "s" /\ path[i + 2] = "/"
        /\ path[i + 3] \in Alnum}

\* The text after "/s/" at the leftmost match.
afterFirstMatch(path) ==
    LET i == CHOOSE k \in matchStarts(path) : \A m \in matchStarts(path) : k <= m
    IN  SubSeq(path, i + 3, Len(path))

\* extractShareId capturing a single character.
extractShareIdOneChar(path) ==
    IF matchStarts(path) = {} THEN NoShare
    ELSE <<Head(afterFirstMatch(path))>>

\* extractShareId: match[1] of path.match(/\/s\/([a-zA-Z0-9]+)/), or null.
extractShareId(path) ==
    IF matchStarts(path) = {} THEN NoShare
    ELSE alnumRun(afterFirstMatch(path))

\* showError of the share page.
shareShowError(h, message) ==
    [h EXCEPT !.loadingHidden = TRUE,
              !.podcastInfoHidden = TRUE,
              !.playerHidden = TRUE,
              !.errorHidden = FALSE,
              !.errorMessage = message]

SourceUrls == {"", "https://www.bbc.co.uk/news/1", "https://www.example.org/post"}

\* What GET /api/share/{share_id} ends with.  "found" and "absent" are the
\* answers of resolveShare (200, exists true / false); the others are a 404,
\* another HTTP error status, a rejected fetch and an unparsable body.
ShareOutcomes == {"found", "absent", "404", "500", "network_error", "bad_json"}

\* The bodies of a "found" answer.
ShareData ==
    [title : {"", "Article"}, author : {"", "A. Writer"}, source_url : SourceUrls]

\* loadSharedPodcast up to its await.
loadSharedPodcast(h) ==
    IF h.shareId = NoShare
    THEN shareShowError(h, MsgInvalidLink)
    ELSE [h EXCEPT !.fetching = TRUE]

\* loadSharedPodcast showing whatever a 200 answer carries.
loadSharedPodcastAnyAnswer(h, outcome, data) ==
    [h EXCEPT !.fetching = FALSE,
              !.answer = outcome,
              !.title = IF data.title # "" THEN data.title ELSE DefaultTitle,
              !.src = h.shareId,
              !.paused = TRUE,
              !.loading = TRUE,
              !.loadingHidden = TRUE,
              !.podcastInfoHidden = FALSE,
              !.playerHidden = FALSE,
              !.ctaHidden = FALSE]

\* loadSharedPodcast that shows the content and leaves the loading section.
loadSharedPodcastStillLoading(h, outcome, data) ==
    LET g == [h EXCEPT !.fetching = FALSE, !.answer = outcome] IN
    IF outcome # "found"
    THEN shareShowError(g, IF outcome \in {"404", "absent"} THEN MsgNotAvailable
                           ELSE MsgLoadFailed)
    ELSE [g EXCEPT !.title = IF data.title # "" THEN data.title ELSE DefaultTitle,
                   !.src = h.shareId,
                   !.loading = TRUE,
                   !.podcastInfoHidden = FALSE,
                   !.playerHidden = FALSE,
                   !.ctaHidden = FALSE]

\* loadSharedPodcast after its fetch has settled.
loadSharedPodcastSettled(h, outcome, data) ==
    LET g == [h EXCEPT !.fetching = FALSE, !.answer = outcome] IN
    CASE outcome = "404" -> shareShowError(g, MsgNotAvailable)
      [] outcome = "500" -> shareShowError(g, MsgLoadFailed)
      [] outcome \in {"network_error", "bad_json"} -> shareShowError(g, MsgLoadFailed)
      [] outcome = "absent" -> shareShowError(g, MsgNotAvailable)
      [] OTHER ->
           [g EXCEPT !.title = IF data.title # "" THEN data.title ELSE DefaultTitle,
                     !.source = IF data.source_url # "" THEN cleanSourceUrl(data.source_url)
                                ELSE IF data.author # "" THEN data.author
                                ELSE @,
                     !.sourceHidden = data.source_url = "" /\ data.author = "",
                     !.src = h.shareId,
                     !.paused = TRUE,
                     !.currentTime = 0,
                     !.duration = 0,
                     !.loading = TRUE,
                     !.loadingHidden = TRUE,
                     !.podcastInfoHidden = FALSE,
                     !.playerHidden = FALSE,
                     !.ctaHidden = FALSE]

\* togglePlayPause of the share page.
shareTogglePlayPause(h) ==
    IF h.paused
    THEN [h EXCEPT !.paused = FALSE,
                   !.currentTime = IF h.duration # 0 /\ @ = h.duration THEN 0 ELSE @]
    ELSE [h EXCEPT !.paused = TRUE]

\* DOMContentLoaded of the share page at the given path.
SharePageLoad(path) ==
    /\ shr.answer = "none" /\ ~shr.fetching /\ shr.errorHidden
    /\ shr' = loadSharedPodcast([shr EXCEPT !.path = path,
                                            !.shareId = extractShareId(path)])
    /\ UNCHANGED <<pageVars, tts, srv>>

\* The storage collaborator's expiry deletes a share record.
ShareExpires(id) ==
    /\ id \in shr.store
    /\ shr' = [shr EXCEPT !.store = @ \ {id}]
    /\ UNCHANGED <<pageVars, tts, srv>>

\* The lookup settles.  resolveShare answers "found" for an id the storage
\* holds and "absent" for any other.
ShareLookupResponse(outcome, data) ==
    /\ shr.fetching
    /\ outcome = "found" => shr.shareId \in shr.store
    /\ outcome \in {"absent", "404"} => shr.shareId \notin shr.store
    /\ shr' = loadSharedPodcastSettled(shr, outcome, data)
    /\ UNCHANGED <<pageVars, tts, srv>>

\* The audio of the share page has loaded, or could not be loaded because
\* the record has expired since.
ShareAudioLoaded ==
    /\ shr.loading
    /\ shr' = IF shr.src \in shr.store
              THEN [shr EXCEPT !.loading = FALSE, !.duration = MaxSegs * SegLen]
              ELSE [shr EXCEPT !.loading = FALSE]
    /\ UNCHANGED <<pageVars, tts, srv>>

\* playBtn 'click' on the share page.
ShareClickPlay ==
    /\ ~shr.playerHidden
    /\ shr' = shareTogglePlayPause(shr)
    /\ UNCHANGED <<pageVars, tts, srv>>

\* timelineSlider 'input' on the share page.
ShareSeek(t) ==
    /\ ~shr.playerHidden
    /\ shr.duration # 0
    /\ shr' = [shr EXCEPT !.currentTime = t]
    /\ UNCHANGED <<pageVars, tts, srv>>

\* TickLen seconds of playback on the share page; at the end of the audio
\* the element pauses ('ended').
ShareTick ==
    /\ ~shr.paused
    /\ ~shr.loading
    /\ shr.currentTime < shr.duration
    /\ shr' = [shr EXCEPT !.currentTime = Min(@ + TickLen, shr.duration),
                          !.paused = shr.currentTime + TickLen >= shr.duration]
    /\ UNCHANGED <<pageVars, tts, srv>>

\* ------------------------------------------------------------- histories
\* obs.calls     calls of handleGenerate so far
\* obs.url       what the URL field held, if the last step was a call of
\*               handleGenerate
\* obs.quiet[j]  -1 before the first status response about job j; after it,
\*               the length of the run of responses about j, up to the last
\*               one, that were no higher than the response before them
\* obs.swap      <<position, paused>> at the moment of the final swap, until
\*               the final source has loaded or the user has used the player
\* obs.done      the terminal status of the current job, once a poll loop has
\*               processed it
\* obs.deferred  the load in progress is a deferred swap that 'timeupdate'
\*               has performed
NoSwap == <<-1, FALSE>>

Terminal(status) == status \in {"completed", "failed"}

\* The page R has started a load of the audio element in the step.
StartedLoad(R) == R.audio.loading /\ R.audio # audio

\* Response r about a job is higher than the response before it, which
\* showed record q.
Higher(q, r) ==
    \/ r.progress > q.progress
    \/ r.completed_segments > q.completed_segments

\* The history after poll() has processed the status response data, made
\* from record r of job j, and left page R.  watch says whether the runs of
\* responses are followed.
Observed(j, r, data, R, watch) ==
    [obs EXCEPT
       !.quiet[j] = IF ~watch THEN @
                    ELSE IF Terminal(data.status) \/ @ = -1 \/ Higher(jobs[j], r) THEN 0
                    ELSE Min(@ + 1, NoProgressLimit),
       !.swap = IF data.status = "completed" /\ ~audio.loading
                THEN <<audio.currentTime, audio.paused>>
                ELSE IF data.status = "completed" THEN NoSwap ELSE @,
       !.done = IF Terminal(data.status) /\ j = app.currentJobId
                THEN data.status ELSE @,
       !.deferred = IF StartedLoad(R) THEN FALSE ELSE @]

\* The history after a 'timeupdate' has left page R.
TimeUpdated(R) ==
    [obs EXCEPT !.deferred = IF StartedLoad(R) THEN TRUE ELSE @]

\* The history after resetUI.
Forgotten ==
    [obs EXCEPT !.swap = NoSwap, !.done = "none", !.deferred = FALSE]

\* ---------------------------------------------------------------- steps
\* A mouse click on a control takes the keyboard focus away from the URL
\* field.  While the share dialog is open its overlay covers the page and
\* gets every click.
Clicked(R) == [R EXCEPT !.dom.urlFocused = FALSE]

\* A hidden section's field cannot hold the focus: the page's next
\* rendering update takes it away (inputSection.classList.add('hidden')).
focusFixup(d) == IF d.inputHidden THEN [d EXCEPT !.urlFocused = FALSE] ELSE d

\* Job j is named by the page R or by a request it has in flight.
Referenced(j, R) ==
    \/ R.app.currentJobId = j
    \/ \E c \in Jobs : R.net.poll[c] = "inflight" /\ R.net.pollJob[c] = j
    \/ R.audio.loading /\ R.audio.src[2] = j

\* A poll loop of the page R has a status request about job j in flight, or
\* a timer that will send one.
Polled(j, R) ==
    \E c \in Jobs :
       \/ R.net.poll[c] = "inflight" /\ R.net.pollJob[c] = j
       \/ R.net.poll[c] = "timer" /\ R.app.currentJobId = j

\* The page R, the records J and the history O after a handler has run,
\* before the next rendering update.
BecomesNow(R, J, O) ==
    \E P \in {R} :
       /\ app' = P.app
       /\ dom' = P.dom
       /\ audio' = P.audio
       /\ net' = P.net
       /\ jobs' = [j \in Jobs |-> IF J[j].status = "none" \/ Referenced(j, P)
                                   THEN J[j] ELSE Expired]
       /\ UNCHANGED <<tts, shr, srv>>
       /\ obs' = [O EXCEPT !.quiet = [j \in Jobs |-> IF Polled(j, P) THEN @[j] ELSE -1],
                           !.url = IF O.calls > obs.calls THEN @ ELSE {}]

\* The page after a handler has run and the page has been rendered.
Becomes(R, J, O) == BecomesNow([R EXCEPT !.dom = focusFixup(@)], J, O)

\* generateBtn 'click' (line 276): a hidden or disabled button gets no click.
ClickGenerate(url) ==
    /\ dom.shareModalHidden
    /\ ~dom.inputHidden
    /\ ~dom.generateBtnDisabled
    /\ obs.calls < MaxCalls
    /\ Becomes(Clicked(handleGenerate(Here, url)), jobs,
               [obs EXCEPT !.calls = @ + 1, !.url = {url}])

\* The user clicks into the URL field, which can be done while it is shown.
FocusUrl ==
    /\ dom.shareModalHidden
    /\ ~dom.inputHidden
    /\ ~dom.urlFocused
    /\ Becomes([Here EXCEPT !.dom.urlFocused = TRUE], jobs, obs)

\* urlInput 'keypress' with Enter (lines 277-279).  The key goes to the
\* field while it holds the focus; the listener calls handleGenerate
\* whatever the state of the button.  Key presses can follow each other
\* faster than the page is rendered, so the field that handleGenerate has
\* just hidden still gets the next one.
EnterKey(url) ==
    /\ dom.urlFocused
    /\ obs.calls < MaxCalls
    /\ BecomesNow(handleGenerate(Here, url), jobs,
               [obs EXCEPT !.calls = @ + 1, !.url = {url}])

GenerateOutcomes ==
    {"accepted", "rejected", "rejected_no_message", "rejected_not_json", "network_error"}

\* POST /api/generate settles.  An accepted request has created the next
\* job record, in pending.
GenerateResponse(outcome) ==
    /\ net.genPending > 0
    /\ LET id == NumJobs + 1 IN
       IF outcome = "accepted"
       THEN Becomes(generateSettled(Here, outcome, id),
                    [jobs EXCEPT ![id] = [NoRecord EXCEPT !.status = "pending"]],
                    [obs EXCEPT !.done = "none"])
       ELSE Becomes(generateSettled(Here, outcome, id), jobs, obs)

\* The timer of loop c fires: poll() runs up to its fetch.
PollFire(c) ==
    /\ net.poll[c] = "timer"
    /\ Becomes(pollSend(Here, c), jobs, obs)

PollOutcomes == {"ok", "unknown_status", "network_error", "http_error", "bad_json"}

\* The status request of loop c settles and the rest of poll() runs.  r is
\* the record the server answers from; jobs[j] is the record as the status
\* response before this one showed it.
PollResponse(c, outcome, watch) ==
    /\ net.poll[c] = "inflight"
    /\ LET j == net.pollJob[c] IN
       IF outcome \in {"ok", "unknown_status"}
       THEN /\ j # NoJob
            /\ \E r \in Later(jobs[j]) :
                  LET data == [Snapshot(j, r) EXCEPT
                                 !.status = IF outcome = "unknown_status" THEN "queued" ELSE @]
                  IN /\ outcome = "unknown_status" => ~Terminal(r.status)
                     /\ \/ app.noProgressCount < MaxNoProgress
                        \/ data.progress > app.lastProgress
                        \/ data.completed_segments > app.lastSegmentCount
                        \/ Terminal(r.status)
                     /\ \E R \in {pollSettled(Here, c, outcome, data)} :
                           Becomes(R, [jobs EXCEPT ![j] = r], Observed(j, r, data, R, watch))
       ELSE \E R \in {pollSettled(Here, c, outcome, Snapshot(j, NoRecord))} :
               Becomes(R, jobs, [obs EXCEPT !.deferred = IF StartedLoad(R) THEN FALSE ELSE @])

\* retryBtn 'click' (line 282); the button is part of the error section.
ClickRetry ==
    /\ dom.shareModalHidden
    /\ ~dom.errorHidden
    /\ Becomes(Clicked(resetUI(Here)), jobs, Forgotten)

\* playBtn 'click' (line 285).
ClickPlay ==
    /\ dom.shareModalHidden
    /\ ~dom.playerHidden
    /\ Becomes(Clicked(togglePlayPause(Here)), jobs, [obs EXCEPT !.swap = NoSwap])

\* timelineSlider 'input' (line 286): handleSeek, then the 'timeupdate'
\* the seek fires.
Seek(t) ==
    /\ dom.shareModalHidden
    /\ ~dom.playerHidden
    /\ audio.duration # 0
    /\ t <= audio.duration
    /\ \E R \in {handleTimeUpdate(handleSeek(Here, t))} :
          Becomes(Clicked(R), jobs, [TimeUpdated(R) EXCEPT !.swap = NoSwap])

\* TickLen seconds of playback (to the end of the buffer at most), then
\* 'timeupdate'.
Tick ==
    /\ ~audio.paused
    /\ ~audio.loading
    /\ audio.currentTime < audio.duration
    /\ \E R \in {handleTimeUpdate([Here EXCEPT !.audio.currentTime =
                                                   Min(@ + TickLen, audio.duration)])} :
          Becomes(R, jobs, TimeUpdated(R))

\* The pending load ends: with data ('loadeddata') or with an error.  The
\* server serves the artifact of the record as the last status response
\* showed it.
AudioLoaded(keep) ==
    /\ audio.loading
    /\ LET j == audio.src[2]
           d == IF j = NoJob THEN 0 ELSE Artifact(audio.src[1], jobs[j], keep)
       IN /\ keep => j # NoJob /\ jobs[j].status = "failed" /\ audio.src[1] = "partial"
          /\ Becomes([Here EXCEPT !.audio =
                         IF d = 0
                         THEN [audio EXCEPT !.loading = FALSE]
                         ELSE [runOnLoaded([audio EXCEPT !.loading = FALSE,
                                                         !.duration = d],
                                           audio.onLoaded)
                                  EXCEPT !.onLoaded = << >>]],
                     jobs,
                     [obs EXCEPT !.swap = NoSwap, !.deferred = FALSE])

\* downloadBtn 'click' (line 289); the button is part of the action bar.
ClickDownload ==
    /\ dom.shareModalHidden
    /\ ~dom.actionBarHidden
    /\ Becomes(Clicked(handleDownload(Here)), jobs, obs)

\* shareBtn 'click' (line 298); the button is part of the action bar.
ClickShare ==
    /\ dom.shareModalHidden
    /\ ~dom.actionBarHidden
    /\ app.currentJobId # NoJob
    /\ Becomes(Clicked(openShareModal(Here)), jobs, obs)

\* The share dialog's status lookup settles (lines 760-771): the link field
\* gets its value, which nothing else in the page reads.
ShareResponse(j) ==
    /\ j \in net.shareReq
    /\ Becomes([Here EXCEPT !.net.shareReq = @ \ {j}], jobs, obs)

\* shareModalClose / shareModalOverlay 'click' (lines 301, 304).
CloseShare ==
    /\ ~dom.shareModalHidden
    /\ Becomes(Clicked(closeShareModal(Here)), jobs, obs)

\* ------------------------------------------------------------------ spec
Init ==
    /\ app = [currentJobId |-> NoJob, pollInterval |-> NoJob,
              partialAudioLoaded |-> FALSE, lastSegmentCount |-> 0,
              pollIntervalTime |-> BaselineInterval, lastProgress |-> 0,
              noProgressCount |-> 0, pendingSegmentCount |-> 0]
    /\ dom = [generateBtnDisabled |-> FALSE, inputHidden |-> FALSE,
              urlFocused |-> FALSE,
              progressHidden |-> TRUE, errorHidden |-> TRUE, errorMessage |-> "",
              podcastInfoHidden |-> TRUE, playerHidden |-> TRUE,
              podcastTitle |-> AsText(""), podcastAuthor |-> AsText(""),
              podcastAuthorHidden |-> TRUE,
              actionBarHidden |-> TRUE, shareModalHidden |-> TRUE]
    /\ audio = [src |-> NoSrc, paused |-> TRUE, currentTime |-> 0, duration |-> 0,
                loading |-> FALSE, onLoaded |-> << >>]
    /\ net = [poll |-> [c \in Jobs |-> "none"], pollJob |-> [c \in Jobs |-> NoJob],
              genPending |-> 0, shareReq |-> {}]
    /\ jobs = [j \in Jobs |-> NoRecord]
    /\ obs = [calls |-> 0, url |-> {}, quiet |-> [j \in Jobs |-> -1], swap |-> NoSwap,
              done |-> "none", deferred |-> FALSE]
    /\ tts = TtsIdle
    /\ shr = ShrUnloaded
    /\ srv = SrvIdle

Next ==
    \/ \E url \in Urls : ClickGenerate(url)
    \/ FocusUrl
    \/ \E url \in Urls : EnterKey(url)
    \/ \E outcome \in GenerateOutcomes : GenerateResponse(outcome)
    \/ \E c \in Jobs : PollFire(c)
    \/ \E c \in Jobs, outcome \in PollOutcomes : PollResponse(c, outcome, FALSE)
    \/ ClickRetry
    \/ ClickPlay
    \/ \E t \in SeekTargets : Seek(t)
    \/ Tick
    \/ \E keep \in BOOLEAN : AudioLoaded(keep)
    \/ ClickDownload
    \/ ClickShare
    \/ \E j \in Jobs : ShareResponse(j)
    \/ CloseShare

Spec == Init /\ [][Next]_vars

\* The page with the runs of status responses followed, without the share
\* dialog, the download, the slider and the playback, and with one kind of
\* failing status request.
NextPolling ==
    \/ \E url \in Urls : ClickGenerate(url)
    \/ FocusUrl
    \/ \E url \in Urls : EnterKey(url)
    \/ \E outcome \in GenerateOutcomes : GenerateResponse(outcome)
    \/ \E c \in Jobs : PollFire(c)
    \/ \E c \in Jobs, outcome \in {"ok", "unknown_status", "network_error"} :
          PollResponse(c, outcome, TRUE)
    \/ ClickRetry
    \/ \E keep \in BOOLEAN : AudioLoaded(keep)

SpecPolling == Init /\ [][NextPolling]_vars

\* The synthesis of a dialogue of up to MaxSegs lines.
NextSpeech ==
    \/ \E n \in 1..MaxSegs : DialogueStart(n)
    \/ \E outcome \in SpeechOutcomes : SpeechResponse(outcome)
    \/ SpeechWake
    \/ PacingOver

SpecSpeech == Init /\ [][NextSpeech]_vars

\* The share page.
NextShare ==
    \/ \E path \in Paths : SharePageLoad(path)
    \/ \E id \in ShareIds : ShareExpires(id)
    \/ \E outcome \in ShareOutcomes, data \in ShareData : ShareLookupResponse(outcome, data)
    \/ ShareAudioLoaded
    \/ ShareClickPlay
    \/ \E t \in SeekTargets : ShareSeek(t)
    \/ ShareTick

SpecShare == Init /\ [][NextShare]_vars

\* The scheduler and the orchestrators run.
Pipeline ==
    \/ StartQueued
    \/ \E j \in SrvJobs, outcome \in {"ok", "fail"} : ScrapeEnds(j, outcome)
    \/ \E j \in SrvJobs, outcome \in {"ok", "fail"}, n \in Lines : ScriptEnds(j, outcome, n)
    \/ \E j \in SrvJobs : SendLine(j)
    \/ \E j \in SrvJobs, i \in Lines, outcome \in SynthesisOutcomes : LineResponse(j, i, outcome)
    \/ \E j \in SrvJobs, outcome \in {"ok", "fail"}, sharing \in BOOLEAN :
          AssembleEnds(j, outcome, sharing)
    \/ \E j \in SrvJobs, outcome \in {"ok", "fail"} : PublishEnds(j, outcome)

\* The server with its clients.
NextServer ==
    \/ \E url \in Urls : Submit(url)
    \/ Pipeline
    \/ \E j \in SrvJobs : GetStatus(j)

SpecServer == Init /\ [][NextServer]_vars

\* The server with clients that fetch audio.
NextDelivery ==
    \/ \E url \in Urls : Submit(url)
    \/ Pipeline
    \/ \E j \in SrvJobs, partial \in BOOLEAN, keep \in BOOLEAN : GetAudio(j, partial, keep)

SpecDelivery == Init /\ [][NextDelivery]_vars

\* The server whose clients submit jobs and never ask for them.
NextUnwatched ==
    \/ \E url \in Urls : Submit(url)
    \/ Pipeline

\* Every collaborator call ends and a queued job is started when there is
\* room for it; no client has to be there.
SpecServerFair == Init /\ [][NextUnwatched]_vars /\ WF_vars(Pipeline)

\* ---------------------------------------------------------------- claims
\* Loop c has processed a non-terminal status response in the step and has
\* set the timer of its next poll.
Rescheduled(c) == net.poll[c] = "inflight" /\ net'.poll[c] = "timer"

\* C1: when a poll loop schedules its next poll after 3 consecutive
\* non-terminal status responses about the job, none of them higher in
\* progress or completed_segments than the response before it, the delay it
\* uses is the relaxed value, 5000 ms.
C1_RelaxedAfterThreeQuietResponses ==
    [][\A c \in Jobs :
          (Rescheduled(c) /\ obs'.quiet[net.pollJob[c]] >= NoProgressLimit)
             => app'.pollIntervalTime = RelaxedInterval]_vars

\* C2: a non-terminal status response whose progress or completed_segments
\* is higher than in the response before it sets the delay of the next poll
\* to the baseline, 1000 ms, and the no-progress counter to 0.
C2_HigherResponseResetsInterval ==
    [][\A c \in Jobs :
          (/\ Rescheduled(c)
           /\ obs.quiet[net.pollJob[c]] # -1
           /\ Higher(jobs[net.pollJob[c]], jobs'[net.pollJob[c]]))
             => /\ app'.pollIntervalTime = BaselineInterval
                /\ app'.noProgressCount = 0]_vars

\* The step starts a load of the audio element.
LoadStarted ==
    /\ audio'.loading
    /\ \/ ~audio.loading
       \/ audio'.src # audio.src
       \/ audio'.onLoaded # audio.onLoaded

\* C3: a partial artifact is put in place of the audio source only at a
\* moment when playback is paused, is at position 0 or has less than 5
\* seconds left in the current buffer.
C3_PartialSwapNeverMidBuffer ==
    [][(LoadStarted /\ audio'.src[1] = "partial")
          => \/ audio.paused
             \/ audio'.onLoaded[1][1] = 0
             \/ audio.duration - audio'.onLoaded[1][1] < SwapThreshold]_vars

\* C4: the poll step that observes completed starts the load of the final
\* artifact, and when that load has ended the position and the play/pause
\* state are those of the moment of the swap.
C4_FinalSwapKeepsPlayback ==
    [][/\ \A c \in Jobs :
            (net.poll[c] = "inflight" /\ net'.poll[c] = "completed")
               => /\ LoadStarted
                  /\ audio'.src = <<"final", app'.currentJobId>>
       /\ (/\ obs.swap # NoSwap
           /\ audio.loading /\ ~audio'.loading
           /\ audio'.duration # 0)
             => /\ audio'.currentTime = obs.swap[1]
                /\ audio'.paused = obs.swap[2]]_vars

\* C5 as stated: once a poll loop has processed a terminal status of the
\* current job, no poll timer is pending and no step sends a status
\* request for that job, the share dialog's included.
C5_NoStatusRequestAfterTerminal ==
    [][(obs.done # "none" /\ obs'.done # "none")
          => /\ \A c \in Jobs : net'.poll[c] # "timer"
             /\ \A c \in Jobs :
                   ~(/\ net.poll[c] # "inflight"
                     /\ net'.poll[c] = "inflight"
                     /\ net'.pollJob[c] = app.currentJobId)
             /\ app.currentJobId \notin net'.shareReq \ net.shareReq]_vars

\* C5 amended: the poll loop that has processed a terminal status clears
\* the timer handle in that step, and never sets a timer or sends a status
\* request again; the share dialog's lookup is a request of its own.
C5_TerminalLoopStaysEnded ==
    [][\A c \in Jobs :
          /\ (net.poll[c] = "inflight" /\ Terminal(net'.poll[c]))
                => /\ app'.pollInterval = NoJob
                   /\ net'.pollJob[c] = NoJob
          /\ Terminal(net.poll[c]) => net'.poll[c] = net.poll[c]]_vars

\* A loop has processed completed for the current job, and the share
\* dialog has a status lookup about that job in flight.
C5_ShareLookupAfterCompleted ==
    /\ obs.done = "completed"
    /\ \E c \in Jobs : net.poll[c] = "completed"
    /\ app.currentJobId \in net.shareReq

\* C6: after a poll loop has processed failed for the current job, no step
\* starts a load of that job's audio.
C6_NoAudioRequestAfterFailed ==
    [][(obs.done = "failed" /\ LoadStarted) => audio'.src[2] # app.currentJobId]_vars

\* C7: the poll step that observes failed stops the loop, clears the timer
\* handle and shows the error section with exactly the error of the
\* response.
C7_FailedShowsResponseError ==
    [][\A c \in Jobs :
          (net.poll[c] = "inflight" /\ net'.poll[c] = "failed")
             => /\ app'.pollInterval = NoJob
                /\ ~dom'.errorHidden
                /\ dom'.errorMessage \in Errors
                /\ jobs'[net.pollJob[c]].status = "failed"
                      => dom'.errorMessage = jobs'[net.pollJob[c]].error]_vars

\* A loop has ended on failed and the error on display is the job's.
C7_FailedErrorOnDisplay ==
    \E c \in Jobs :
       /\ net.poll[c] = "failed"
       /\ app.currentJobId # NoJob
       /\ jobs[app.currentJobId].status = "failed"
       /\ ~dom.errorHidden
       /\ dom.errorMessage = jobs[app.currentJobId].error

\* C8: whatever the outcome of its status request, a poll step ends with
\* its one next timer set, or with the loop stopped and the completion
\* handled, or with the loop stopped and an error on display.
C8_PollStepEndsDefinite ==
    [][\A c \in Jobs :
          (net.poll[c] = "inflight" /\ net'.poll[c] # "inflight")
             => \/ /\ net'.poll[c] = "timer"
                   /\ app'.pollInterval = c
                   /\ \A d \in Jobs \ {c} : net'.poll[d] = "timer" => net.poll[d] = "timer"
                \/ /\ net'.poll[c] = "completed"
                   /\ app'.pollInterval = NoJob
                   /\ dom'.progressHidden
                   /\ ~dom'.podcastInfoHidden
                   /\ audio'.loading /\ audio'.src[1] = "final"
                \/ /\ net'.poll[c] \in {"failed", "stopped"}
                   /\ app'.pollInterval = NoJob
                   /\ ~dom'.errorHidden
                   /\ dom'.errorMessage # ""]_vars

\* A loop has stopped on an unparsable response body, with its message on
\* display.
C8_StoppedOnBadJson ==
    \E c \in Jobs :
       /\ net.poll[c] = "stopped"
       /\ ~dom.errorHidden
       /\ dom.errorMessage = MsgStatusPrefix \o MsgBadJson

\* C9: at most one status poll is outstanding, counting pending poll timers
\* and poll requests in flight.
C9_AtMostOnePollOutstanding ==
    Cardinality({c \in Jobs : net.poll[c] \in {"timer", "inflight"}}) <= 1

\* C10: while the job is processing, a deferred swap (segments pending that
\* are not loaded) never stays pending with playback within 5 seconds of
\* the end of the buffer: the 'timeupdate' that brings it there performs it.
C10_DeferredSwapDoneNearBufferEnd ==
    (/\ obs.done = "none"
     /\ app.pendingSegmentCount > app.lastSegmentCount
     /\ ~audio.loading
     /\ audio.duration # 0)
       => audio.duration - audio.currentTime >= SwapThreshold

\* A swap that was deferred is being performed by 'timeupdate' while the
\* job is processing.
C10_DeferredSwapPerformed ==
    /\ obs.deferred
    /\ obs.done = "none"
    /\ audio.loading
    /\ audio.src = <<"partial", app.currentJobId>>
    /\ app.lastSegmentCount = app.pendingSegmentCount

\* C11: a call of handleGenerate with a URL field that is empty after
\* trimming, or that is no well-formed absolute URL, shows the error and
\* does nothing else: no request is sent, no job id is assigned, no poll loop
\* starts and no job record exists that did not exist before.
C11_InvalidUrlRejectedLocally ==
    [][\A value \in obs'.url :
          (trim(value) = << >> \/ ~ValidUrl(trim(value)))
             => /\ net' = net
                /\ app' = app
                /\ jobs' = jobs
                /\ ~dom'.errorHidden
                /\ dom'.errorMessage = MsgEnterUrl]_vars

\* handleGenerate has just rejected a field holding only white space.
C11_BlankUrlRejected ==
    /\ obs.url = {<<" ">>}
    /\ ~dom.errorHidden
    /\ dom.errorMessage = MsgEnterUrl
    /\ net.genPending = 0

\* The outcome of the last attempt for the current line.
LastOutcome == IF tts.log = << >> THEN "none" ELSE tts.log[Len(tts.log)]

\* C12: generate_speech waits and tries again only after a 429 or a 503
\* and only while fewer than 4 attempts have been made; after the 4th such
\* failure, and after any other failure at once (with no wait for it), it
\* raises; it returns only with audio; there is never a 5th attempt.
C12_RetryOnlyTransientUpToFour ==
    /\ Len(tts.log) <= MaxRetries
    /\ tts.state = "sleeping"
          => /\ LastOutcome \in Transient
             /\ Len(tts.log) < MaxRetries
             /\ Len(tts.waits) = Len(tts.log)
    /\ tts.state = "raised"
          => /\ LastOutcome # "ok"
             /\ \A i \in 1..(Len(tts.log) - 1) : tts.log[i] \in Transient
             /\ Len(tts.waits) = Len(tts.log) - 1
             /\ LastOutcome \in Transient => Len(tts.log) = MaxRetries
             /\ tts.raised # "none"
    /\ tts.state = "pacing"
          => /\ LastOutcome = "ok"
             /\ \A i \in 1..(Len(tts.log) - 1) : tts.log[i] \in Transient
             /\ tts.saved = tts.line
    /\ tts.state = "done" => tts.saved = tts.lines

\* A line has been given up after 4 rate-limited attempts.
C12_GivenUpAfterFourAttempts ==
    /\ tts.state = "raised"
    /\ tts.log = <<"429", "503", "429", "429">>

\* C13: a line that is given up after transient failures has gone through
\* the back-off waits of 2, 4, 8 and 16 seconds.
C13_FourBackoffWaits ==
    (tts.state = "raised" /\ LastOutcome \in Transient)
       => tts.waits = <<2, 4, 8, 16>>

\* C14: when the lookup of a share id that the storage does not hold is
\* answered with exists:false, the share page shows 'not available or has
\* expired': the player and the podcast info stay hidden and the generic
\* load-failure text is not shown; that text is shown for a rejected fetch.
C14_AbsentShareShowsNotAvailable ==
    /\ shr.answer = "absent"
          => /\ ~shr.errorHidden
             /\ shr.errorMessage = MsgNotAvailable
             /\ shr.playerHidden
             /\ shr.podcastInfoHidden
             /\ shr.loadingHidden
             /\ shr.src = NoShare
    /\ shr.answer = "network_error"
          => ~shr.errorHidden /\ shr.errorMessage = MsgLoadFailed

\* The page was opened for a share id that has expired, and the lookup has
\* answered exists:false.
C14_ExpiredShareAnswered ==
    /\ shr.shareId = LiveId
    /\ shr.store = {}
    /\ shr.answer = "absent"
    /\ shr.errorMessage = MsgNotAvailable

\* The step sends a request to the server: a generate request, a status
\* request of a poll loop or of the share dialog, or an audio request.
RequestSent ==
    \/ net'.genPending > net.genPending
    \/ \E c \in Jobs : net.poll[c] # "inflight" /\ net'.poll[c] = "inflight"
    \/ ~(net'.shareReq \subseteq net.shareReq)
    \/ audio'.loading /\ audio' # audio

\* The step is resetUI, or it ends a poll loop (a cleared timer, a catch
\* block, a failed response) and no loop processes completed in it.
PollingAbandoned ==
    \/ app.currentJobId # NoJob /\ app'.currentJobId = NoJob
    \/ ~dom.errorHidden /\ dom'.errorHidden /\ dom'.progressHidden /\ dom'.playerHidden
    \/ /\ \E c \in Jobs : /\ net.poll[c] \in {"timer", "inflight"}
                           /\ net'.poll[c] \in {"stopped", "failed"}
       /\ \A c \in Jobs : ~(net.poll[c] = "inflight" /\ net'.poll[c] = "completed")

\* C15: a step in which the page stops or abandons polling (resetUI, a
\* status request that ended in an error, a failed response) sends no request
\* to the server, and no poll loop it leaves behind will send one.
C15_AbandoningSendsNothing ==
    [][PollingAbandoned
          => /\ ~RequestSent
             /\ \A c \in Jobs :
                   net.poll[c] = "inflight" /\ net'.poll[c] # "inflight"
                      => net'.poll[c] \in {"stopped", "failed"}]_vars

\* resetUI has run after a status request ended in an error while the job
\* was not finished: the page names no job and has no request in flight.
C15_AbandonedUnfinishedJob ==
    /\ app.currentJobId = NoJob
    /\ dom.errorHidden /\ ~dom.inputHidden
    /\ \E c \in Jobs : net.poll[c] = "stopped"
    /\ \A c \in Jobs : net.poll[c] \notin {"timer", "inflight"}
    /\ net.genPending = 0 /\ net.shareReq = {} /\ ~audio.loading
    /\ \E j \in Jobs : jobs[j].status = "expired"

\* Job j has ended in exactly one of the two terminal states.
EndedOneWay(j) ==
    \/ /\ getStatus(j).status = "completed"
       /\ getStatus(j).error = "none"
       /\ getStatus(j).final_audio_ref # NoRef
    \/ /\ getStatus(j).status = "failed"
       /\ getStatus(j).error # "none"
       /\ getStatus(j).final_audio_ref = NoRef

\* C16: every job that submit has accepted eventually reaches exactly one
\* of completed and failed, and stays there, provided every collaborator
\* call ends and queued jobs are started when there is room.
C16_AcceptedJobEventuallyEnds ==
    \A j \in SrvJobs : (getStatus(j).status # "none") ~> [](EndedOneWay(j))

\* A job that had to wait in the queue has completed after the job before
\* it had failed.
C16_QueuedJobCompleted ==
    /\ getStatus(1).status = "failed"
    /\ getStatus(2).status = "completed"
    /\ srv.queue = << >>

\* The status of a job moves from a to b.
StatusMove(a, b) ==
    \/ a = "none" /\ b = "pending"
    \/ a = "pending" /\ b = "processing"
    \/ a = "processing" /\ b \in {"completed", "failed"}

\* C17: a job's record is created in pending, its status only moves
\* pending -> processing -> completed or failed, a record that is completed
\* or failed is never changed again, and no record carries both a final
\* artifact and an error.
C17_StatusMovesForwardOnly ==
    [][\A j \in SrvJobs :
          /\ getStatus(j)'.status # getStatus(j).status
                => StatusMove(getStatus(j).status, getStatus(j)'.status)
          /\ Terminal(getStatus(j).status) => getStatus(j)' = getStatus(j)
          /\ ~(getStatus(j)'.final_audio_ref # NoRef /\ getStatus(j)'.error # "none")]_vars

\* A job has failed while a synthesis call of it is still under way and
\* the next job is already being processed.
C17_FailedWithCallUnderWay ==
    /\ getStatus(1).status = "failed"
    /\ Flying(srv.job[1]) # {}
    /\ getStatus(2).status = "processing"

\* C18: every getStatus snapshot is consistent: completed comes with the
\* final artifact, the metadata and completed_segments = total_segments;
\* failed comes with the error and without a final artifact; any other
\* status comes with neither.
C18_SnapshotsConsistent ==
    \A j \in SrvJobs :
       LET snapshot == getStatus(j) IN
       /\ snapshot.status = "completed"
             => /\ snapshot.final_audio_ref # NoRef
                /\ snapshot.metadata # NoMeta
                /\ snapshot.metadata.segments = snapshot.total_segments
                /\ snapshot.completed_segments = snapshot.total_segments
                /\ snapshot.error = "none"
       /\ snapshot.status = "failed"
             => /\ snapshot.error # "none"
                /\ snapshot.final_audio_ref = NoRef
                /\ snapshot.metadata = NoMeta
       /\ snapshot.status \in {"none", "pending", "processing"}
             => /\ snapshot.error = "none"
                /\ snapshot.final_audio_ref = NoRef
                /\ snapshot.metadata = NoMeta

\* A job is completed with a share, and the last snapshot handed out for
\* it was taken while its last line was still missing.
C18_CompletedAfterSnapshot ==
    /\ getStatus(1).status = "completed"
    /\ getStatus(1).metadata.share
    /\ srv.seen[1].completed_segments = 1
    /\ getStatus(1).total_segments = 2

\* C19: from one getStatus call for a job to the next, completed_segments
\* and progress do not decrease; completed_segments is never above
\* total_segments once the script is there.
C19_CountsNeverDecrease ==
    [][\A j \in SrvJobs :
          /\ srv.seen[j] # NotSeen
                => /\ srv'.seen[j].completed_segments >= srv.seen[j].completed_segments
                   /\ srv'.seen[j].progress >= srv.seen[j].progress
          /\ getStatus(j)'.total_segments > 0
                => getStatus(j)'.completed_segments <= getStatus(j)'.total_segments]_vars

\* A snapshot taken after the job has failed shows the progress and the
\* line that had completed before the failure.
C19_SnapshotAfterFailure ==
    /\ getStatus(1).status = "failed"
    /\ getStatus(1).partial_audio_ref # NoRef
    /\ srv.seen[1].completed_segments = 1
    /\ srv.seen[1].progress = getStatus(1).progress

\* The lines of an artifact, without the gaps.
LinesIn(artifact) == [k \in 1..((Len(artifact) + 1) \div 2) |-> artifact[2 * k - 1]]

\* The artifact holds lines in increasing index order, with a gap between
\* two of them.
InIndexOrder(artifact) ==
    /\ \A k \in 1..Len(artifact) : (k % 2 = 0) <=> (artifact[k] = Gap)
    /\ Len(artifact) % 2 = 1 \/ artifact = NoRef
    /\ \A k, l \in 1..Len(LinesIn(artifact)) :
          k < l => LinesIn(artifact)[k] < LinesIn(artifact)[l]

\* C20: every artifact of a job holds exactly the lines completed so far,
\* in index order, in whatever order the synthesis calls completed; each
\* step adds at most one line to completed_segments and to the partial
\* artifact; the final artifact holds all lines of the script in order.
C20_ArtifactsInIndexOrder ==
    /\ [](\A j \in SrvJobs :
            /\ InIndexOrder(getStatus(j).partial_audio_ref)
            /\ getStatus(j).status = "processing"
                  => /\ Range(LinesIn(getStatus(j).partial_audio_ref)) = Range(srv.job[j].landed)
                     /\ getStatus(j).completed_segments = Len(srv.job[j].landed)
                     /\ Len(LinesIn(getStatus(j).partial_audio_ref)) = Len(srv.job[j].landed)
            /\ getStatus(j).status = "completed"
                  => LinesIn(getStatus(j).final_audio_ref)
                        = [k \in 1..getStatus(j).total_segments |-> k])
    /\ [][\A j \in SrvJobs :
            /\ getStatus(j)'.completed_segments <= getStatus(j).completed_segments + 1
            /\ (getStatus(j)'.partial_audio_ref # getStatus(j).partial_audio_ref
                   /\ getStatus(j)'.status = "processing")
                  => /\ getStatus(j)'.completed_segments = getStatus(j).completed_segments + 1
                     /\ Range(LinesIn(getStatus(j).partial_audio_ref))
                           \subseteq Range(LinesIn(getStatus(j)'.partial_audio_ref))]_vars

\* The synthesis call of line 2 completed before that of line 1, and the
\* partial artifact holds line 1 before line 2.
C20_LaterLineLandedFirst ==
    /\ srv.job[1].landed = <<2, 1>>
    /\ getStatus(1).partial_audio_ref = <<1, Gap, 2>>

C22_AudioReadiness ==
    [][srv'.served # srv.served
          => LET call == srv'.served
                 r == getStatus(call.job)
             IN /\ (call.partial /\ r.status # "none" /\ r.completed_segments = 0)
                      => call.reply.code = "NotReady"
                /\ (~call.partial /\ r.status = "completed")
                      => /\ call.reply.code = "ok"
                         /\ call.reply.bytes = r.final_audio_ref
                         /\ call.reply.bytes # NoRef]_vars

\* The partial audio of a job was asked for while its first synthesis call
\* was under way, and the answer was NotReady.
C22_PartialAskedTooEarly ==
    /\ srv.served.job = 1
    /\ srv.served.partial
    /\ srv.served.reply.code = "NotReady"
    /\ srv.job[1].stage = "synthesizing"
    /\ Flying(srv.job[1]) # {}
    /\ getStatus(1).completed_segments = 0

\* The error of a failure in the given stage.
StageError(stage) ==
    IF stage = "scraping" THEN "ExtractionFailed" ELSE "ScriptingFailed"

\* C23: the first call of the scraping or of the scripting stage that ends
\* moves the job on or, if it failed, makes the job failed with the error
\* of that stage; such a job has no partial artifact and no completed
\* segment, in its record and in every snapshot handed out.
C23_EarlyStageFailureIsFatal ==
    /\ [][\A j \in SrvJobs :
            (srv.job[j].stage \in {"scraping", "scripting"} /\ srv'.job[j] # srv.job[j])
               => \/ /\ getStatus(j)'.status = "processing"
                     /\ srv'.job[j].stage \in {"scripting", "synthesizing"}
                     /\ srv'.job[j].stage # srv.job[j].stage
                  \/ /\ getStatus(j)'.status = "failed"
                     /\ getStatus(j)'.error = StageError(srv.job[j].stage)
                     /\ srv'.job[j].stage = "ended"]_vars
    /\ [](\A j \in SrvJobs :
            getStatus(j).error \in {"ExtractionFailed", "ScriptingFailed"}
               => /\ getStatus(j).status = "failed"
                  /\ getStatus(j).partial_audio_ref = NoRef
                  /\ getStatus(j).completed_segments = 0
                  /\ srv.seen[j].completed_segments <= 0)

\* The scripting of a job has failed, and a snapshot of the failed job has
\* been handed out.
C23_ScriptingFailedSeen ==
    /\ getStatus(1).status = "failed"
    /\ getStatus(1).error = "ScriptingFailed"
    /\ srv.seen[1] = [progress |-> getStatus(1).progress, completed_segments |-> 0]

\* C24: the polling interval is 5 s before the first status response and
\* 3 s or 10 s after it; no other interval is used.
C24_IntervalFiveThreeTen ==
    /\ app.pollIntervalTime \in {3000, 5000, 10000}
    /\ (\A j \in Jobs : obs.quiet[j] = -1) /\ obs.calls = 0
          => app.pollIntervalTime = 5000

\* C25: pollIntervalTime is 1000 or 5000, and it is 5000 exactly when
\* noProgressCount is at least 3.
C25_IntervalFollowsNoProgressCount ==
    /\ app.pollIntervalTime \in {BaselineInterval, RelaxedInterval}
    /\ app.pollIntervalTime = RelaxedInterval <=> app.noProgressCount >= NoProgressLimit

\* Three status responses in a row showed no progress: the next status
\* request is due in 5 s.
C25_RelaxedWithTimerSet ==
    /\ app.pollIntervalTime = RelaxedInterval
    /\ app.noProgressCount = NoProgressLimit
    /\ \E c \in Jobs : net.poll[c] = "timer"

\* C26: resetUI, from any state the page can be in, gives the initial
\* state: no current job, no poll timer, the baseline interval, all counters
\* 0, no partial audio loaded, the generate button enabled, the audio paused
\* without a source; resetUI applied again changes nothing.
C26_ResetGivesInitialState ==
    \E R \in {resetUI(Here)} :
       /\ R.app = [currentJobId |-> NoJob, pollInterval |-> NoJob,
                   partialAudioLoaded |-> FALSE, lastSegmentCount |-> 0,
                   pollIntervalTime |-> BaselineInterval, lastProgress |-> 0,
                   noProgressCount |-> 0, pendingSegmentCount |-> 0]
       /\ \A c \in Jobs : R.net.poll[c] # "timer"
       /\ ~R.dom.generateBtnDisabled
       /\ R.audio.paused /\ R.audio.src = NoSrc
       /\ resetUI(R) = R

\* C27: a poll loop starts only in the step in which a generate request is
\* answered with success and a job id, and it polls that job; a generate
\* request that fails shows the server's error text, or the default text
\* or the text of the exception if there is none, enables the generate
\* button again, leaves currentJobId as it is and starts no status request.
C27_PollingOnlyAfterAcceptedGenerate ==
    /\ [](net.genPending > 0
            => \A outcome \in GenerateOutcomes \ {"accepted"} :
                  \E R \in {generateSettled(Here, outcome, NumJobs + 1)} :
                     /\ ~R.dom.errorHidden
                     /\ R.dom.errorMessage =
                           CASE outcome = "rejected" -> MsgServerRejected
                             [] outcome = "rejected_no_message" -> MsgStartFailed
                             [] outcome = "rejected_not_json" -> MsgBadJson
                             [] OTHER -> MsgFetchFailed
                     /\ ~R.dom.generateBtnDisabled
                     /\ R.app.currentJobId = app.currentJobId
                     /\ R.net.poll = net.poll
                     /\ R.net.pollJob = net.pollJob)
    /\ [][\A c \in Jobs :
            (net.poll[c] = "none" /\ net'.poll[c] # "none")
               => /\ net'.genPending < net.genPending
                  /\ jobs[c].status = "none" /\ jobs'[c].status = "pending"
                  /\ app'.currentJobId = c
                  /\ net'.poll[c] = "inflight"
                  /\ net'.pollJob[c] = c]_vars

\* The only generate request was rejected by the server: its error text is
\* shown, the button is enabled, and no poll loop has started.
C27_GenerateRejected ==
    /\ obs.calls = 1
    /\ net.genPending = 0
    /\ ~dom.errorHidden /\ dom.errorMessage = MsgServerRejected
    /\ ~dom.generateBtnDisabled
    /\ app.currentJobId = NoJob
    /\ \A c \in Jobs : net.poll[c] = "none"

\* The share page shows the player: loading and error are hidden.
PlayerShown ==
    ~shr.playerHidden /\ ~shr.podcastInfoHidden /\ shr.loadingHidden /\ shr.errorHidden

\* The share page shows an error: loading, podcast info and player are
\* hidden.
ErrorShown ==
    ~shr.errorHidden /\ shr.loadingHidden /\ shr.podcastInfoHidden /\ shr.playerHidden

\* C28: once loadSharedPodcast has finished, whatever the share request
\* ended with, the share page shows either the player or an error, never
\* both and never the loading section; for a path without a share id it
\* shows 'Invalid share link' and no request is sent.
C28_SharePageEndsInOneOfTwoStates ==
    /\ (shr.answer # "none" \/ ~shr.errorHidden) => (PlayerShown /\ ~ErrorShown) \/ (ErrorShown /\ ~PlayerShown)
    /\ PlayerShown => shr.answer = "found"
    /\ (shr.shareId = NoShare /\ ~shr.errorHidden)
          => shr.errorMessage = MsgInvalidLink /\ ~shr.fetching /\ shr.answer = "none"
    /\ shr.fetching => shr.shareId # NoShare

\* The share request has found the podcast, and the page shows the player.
C28_SharedPodcastShown ==
    /\ shr.answer = "found"
    /\ PlayerShown
    /\ shr.src = LiveId

C30_ArticleFieldsShownAsText ==
    ~dom.podcastTitle.html /\ ~dom.podcastAuthor.html

====
